---- MODULE Spec2Model ----
(***************************************************************************)
(* Model of s28042_2025-2.py: the NCBIRetriever client (search_taxid,      *)
(* fetch_records), the report functions (generate_csv, generate_chart)     *)
(* and the script main().                                                  *)
(*                                                                         *)
(* Two specifications:                                                     *)
(*   Spec        one run of main(), from the prompts to the last print;    *)
(*   SpecClient  any sequence of search_taxid / fetch_records calls on one *)
(*               NCBIRetriever object.                                     *)
(*                                                                         *)
(* The remote service (Entrez) is the environment.  It holds, per taxid,   *)
(* the nucleotide records that match; it may fail any request; a search    *)
(* with usehistory="y" that matches answers with Count, WebEnv, QueryKey.  *)
(* GenBank text is modelled as the sequence of its entries; an entry is    *)
(* well formed (SeqIO.parse yields a record) or not (SeqIO.parse raises).  *)
(***************************************************************************)
EXTENDS Integers, Sequences, FiniteSets, TLC

VARIABLES
    webenv,            \* self.webenv     (<<>> while the attribute does not exist)
    query_key,         \* self.query_key  (<<>> while the attribute does not exist)
    count,             \* self.count      (<<>> while the attribute does not exist)
    db,                \* remote: taxid -> the GenBank entries matching it
    serial,            \* remote: number of esearch requests served
    fetchLog,          \* remote: the nucleotide efetch requests received
    outcome,           \* what the last remote call / local step did
    pc,                \* main: position in the script
    min_len, max_len,  \* main: the length bounds (<<>> is None)
    ret,               \* main: the local `count` returned by search_taxid
    sample_records,    \* main: the value returned by fetch_records
    idx,               \* main: position of the SeqIO.parse iterator
    filtered_records,  \* main: the list built by the filter loop
    csv_file,          \* taxid_<id>_attributes.csv (<<>> while not written)
    chart_file,        \* taxid_<id>_chart.png      (<<>> while not written)
    sample_file,       \* taxid_<id>_sample.gb      (<<>> while not written)
    history            \* client: the calls made so far, with their results

vars == <<webenv, query_key, count, db, serial, fetchLog, outcome, pc, min_len,
          max_len, ret, sample_records, idx, filtered_records, csv_file,
          chart_file, sample_file, history>>

retrieverVars == <<webenv, query_key, count>>
mainVars == <<pc, min_len, max_len, ret, sample_records, idx, filtered_records,
              csv_file, chart_file, sample_file>>

----------------------------------------------------------------------------
(* Bounds of the model *)

MaxRecs == 3        \* records matching one taxid
MaxSeqLen == 2      \* longest sequence
MaxCalls == 3       \* calls made on one client in SpecClient

(* Program constants *)

MaxBatch == 500     \* min(max_records, 500)
SampleSize == 5     \* fetch_records(start=0, max_records=5)

MainTaxid == "9606"
TaxIds == {"9606", "10090", "0"}

----------------------------------------------------------------------------
(* Python values *)

None == [kind |-> "None", val |-> 0, body |-> <<>>]
IntVal(n) == [kind |-> "int", val |-> n, body |-> <<>>]
EmptyList == [kind |-> "list", val |-> 0, body |-> <<>>]
Text(entries) == [kind |-> "str", val |-> 0, body |-> entries]

Min(a, b) == IF a <= b THEN a ELSE b

(* GenBank entries.  acc is the accession number, len the sequence length,
   desc the description; a malformed entry carries no data. *)
Entry(i, l) == [acc |-> i, len |-> l, desc |-> i, wellFormed |-> TRUE]
Malformed(i) == [acc |-> i, len |-> 0, desc |-> i, wellFormed |-> FALSE]

RECURSIVE EntrySeqs(_)
EntrySeqs(n) ==
    IF n = 0 THEN {<<>>}
    ELSE LET shorter == EntrySeqs(n - 1)
         IN  shorter \cup
             { Append(s, e) : s \in {t \in shorter : Len(t) = n - 1},
                              e \in {Entry(n, l) : l \in 0..MaxSeqLen}
                                    \cup {Malformed(n)} }

----------------------------------------------------------------------------
(* NCBIRetriever *)

(* What the remote service can answer to the two requests of search_taxid:
   the taxonomy lookup fails (request error, or no taxonomy record so that
   records[0] raises), the search fails, or the search answers. *)
SearchReplyKinds == {"lookup_error", "search_error", "ok"}

SearchReply(kind, taxid) ==
    [kind |-> kind, count |-> Len(db[taxid]),
     webenv |-> [taxid |-> taxid, serial |-> serial + 1],
     query_key |-> serial + 1]

(* search_taxid reaches the assignments of self.webenv, self.query_key and
   self.count only when nothing raised and count != 0. *)
StoresSession(reply) == reply.kind = "ok" /\ reply.count # 0

(* The value search_taxid returns. *)
SearchReturnsMinusOne(reply) ==
    IF StoresSession(reply) THEN IntVal(reply.count)
    ELSE IF reply.kind = "ok" THEN None ELSE IntVal(0 - 1)

SearchReturn(reply) ==
    IF StoresSession(reply) THEN IntVal(reply.count) ELSE None

(* The attributes of the object after search_taxid got `reply`; old is
   <<self.webenv, self.query_key, self.count>> before the call. *)
SessionClearedOnFailure(old, reply) ==
    IF StoresSession(reply)
    THEN << <<reply.webenv>>, <<reply.query_key>>, <<reply.count>> >>
    ELSE << <<>>, <<>>, <<>> >>

SessionAfterSearch(old, reply) ==
    IF StoresSession(reply)
    THEN << <<reply.webenv>>, <<reply.query_key>>, <<reply.count>> >>
    ELSE old

(* search_taxid(taxid), with the remote answering `kind`: its effect on the
   object and on the remote.  It returns SearchReturn(SearchReply(kind, taxid)). *)
search_taxid(taxid, kind) ==
    LET reply == SearchReply(kind, taxid)
        after == SessionAfterSearch(<<webenv, query_key, count>>, reply)
    IN  /\ serial' = IF kind = "lookup_error" THEN serial ELSE serial + 1
        /\ webenv' = after[1]
        /\ query_key' = after[2]
        /\ count' = after[3]
        /\ outcome' = IF kind = "ok" /\ reply.count = 0 THEN "no_matches" ELSE kind
        /\ UNCHANGED <<db, fetchLog>>

(* hasattr(self, 'webenv') and hasattr(self, 'query_key') *)
HasSession == webenv # <<>> /\ query_key # <<>>

(* The value fetch_records returns when there is no session. *)
NoSessionReturnsText == Text(<<>>)

NoSessionReturn == EmptyList

(* The value fetch_records returns when the request raised. *)
FetchErrorReturnsList == EmptyList

FetchErrorReturn == Text(<<>>)

BatchSizeUncapped(max_records) == max_records

BatchSize(max_records) == Min(max_records, MaxBatch)

(* The text the remote returns for a fetch by history: the entries of the
   retained result set from retstart on, at most retmax of them. *)
Page(entries, retstart, retmax) ==
    SubSeq(entries, retstart + 1, Min(Len(entries), retstart + retmax))

FetchReplyKinds == {"fetch_error", "ok"}

(* The efetch request fetch_records sends when there is a session. *)
FetchRequest(start, max_records) ==
    [retstart |-> start, retmax |-> BatchSize(max_records),
     webenv |-> webenv[1], query_key |-> query_key[1]]

(* The value fetch_records(start, max_records) returns, with the remote
   answering `kind`. *)
FetchReturn(start, max_records, kind) ==
    IF ~HasSession THEN NoSessionReturn
    ELSE IF kind = "ok"
         THEN LET request == FetchRequest(start, max_records)
              IN  Text(Page(db[request.webenv.taxid], request.retstart,
                            request.retmax))
         ELSE FetchErrorReturn

(* fetch_records(start, max_records): its effect on the object and on the
   remote. *)
fetch_records(start, max_records, kind) ==
    /\ IF ~HasSession
       THEN /\ outcome' = "no_session"
            /\ UNCHANGED fetchLog
       ELSE /\ outcome' = kind
            /\ fetchLog' = Append(fetchLog, FetchRequest(start, max_records))
    /\ UNCHANGED <<retrieverVars, db, serial>>

----------------------------------------------------------------------------
(* generate_csv, generate_chart *)

(* The SeqRecord SeqIO.parse yields for a well-formed entry. *)
Record(entry) == [acc |-> entry.acc, len |-> entry.len, desc |-> entry.desc]

(* A cell of the "description" column: a record's description string, or
   the list `descriptions` itself. *)
DescriptionString(d) == [kind |-> "str", val |-> d]
DescriptionsList == [kind |-> "list", val |-> 0]

(* What the loop of generate_csv appends to `descriptions` for `record`:
   descriptions.append(descriptions). *)
AppendedDescription(record) == DescriptionsList

(* The rows of the DataFrame generate_csv builds. *)
CsvRows(records) ==
    [i \in 1..Len(records) |->
        [acc |-> records[i].acc, len |-> records[i].len,
         desc |-> AppendedDescription(records[i])]]

(* sorted(list(records), key=lambda r: len(r.seq)): a stable sort. *)
RECURSIVE InsertByLen(_, _)
InsertByLen(sorted, r) ==
    IF sorted = <<>> THEN <<r>>
    ELSE IF sorted[Len(sorted)].len <= r.len THEN Append(sorted, r)
    ELSE Append(InsertByLen(SubSeq(sorted, 1, Len(sorted) - 1), r),
                sorted[Len(sorted)])

RECURSIVE InsertBeforeEqual(_, _)
InsertBeforeEqual(sorted, r) ==
    IF sorted = <<>> THEN <<r>>
    ELSE IF sorted[Len(sorted)].len < r.len THEN Append(sorted, r)
    ELSE Append(InsertBeforeEqual(SubSeq(sorted, 1, Len(sorted) - 1), r),
                sorted[Len(sorted)])

RECURSIVE SortedUnstable(_)
SortedUnstable(records) ==
    IF records = <<>> THEN <<>>
    ELSE InsertBeforeEqual(SortedUnstable(SubSeq(records, 1, Len(records) - 1)),
                           records[Len(records)])

RECURSIVE SortedByLen(_)
SortedByLen(records) ==
    IF records = <<>> THEN <<>>
    ELSE InsertByLen(SortedByLen(SubSeq(records, 1, Len(records) - 1)),
                     records[Len(records)])

(* The points generate_chart plots: accession number against length, in the
   order of the sorted copy. *)
ChartPoints(records) ==
    LET sorted == SortedByLen(records)
    IN  [i \in 1..Len(sorted) |-> [acc |-> sorted[i].acc, len |-> sorted[i].len]]

----------------------------------------------------------------------------
(* main *)

(* What the user can type at a length prompt. *)
BoundInputs ==
    {[kind |-> "blank", val |-> 0], [kind |-> "text", val |-> 0]}
        \cup {[kind |-> "digits", val |-> n] : n \in 0..(MaxSeqLen + 1)}

(* try: int(input) except ValueError: None *)
ParseBound(input) == IF input.kind = "digits" THEN <<input.val>> ELSE <<>>

(* `not count` *)
NotCountZeroOnly(v) == v.kind = "int" /\ v.val = 0

NotCount(v) == v.kind = "None" \/ (v.kind = "int" /\ v.val = 0)

(* The two `continue` conditions of the filter loop. *)
SkipsInclusive(record, lo, hi) ==
    \/ lo # <<>> /\ record.len <= lo[1]
    \/ hi # <<>> /\ record.len >= hi[1]

Skips(record, lo, hi) ==
    \/ lo # <<>> /\ record.len < lo[1]
    \/ hi # <<>> /\ record.len > hi[1]

Crash(why) == pc' = "CRASHED" /\ outcome' = why

ReadBounds ==
    /\ pc = "START"
    /\ \E a \in BoundInputs, b \in BoundInputs :
          /\ min_len' = ParseBound(a)
          /\ max_len' = ParseBound(b)
    /\ pc' = "CONFIGURED"
    /\ UNCHANGED <<retrieverVars, db, serial, fetchLog, outcome, ret,
                   sample_records, idx, filtered_records, csv_file, chart_file,
                   sample_file, history>>

Search ==
    /\ pc = "CONFIGURED"
    /\ \E kind \in SearchReplyKinds :
          /\ search_taxid(MainTaxid, kind)
          /\ ret' = SearchReturn(SearchReply(kind, MainTaxid))
    /\ pc' = IF NotCount(ret') THEN "NO_RESULTS" ELSE "SEARCHED"
    /\ UNCHANGED <<min_len, max_len, sample_records, idx, filtered_records,
                   csv_file, chart_file, sample_file, history>>

Fetch ==
    /\ pc = "SEARCHED"
    /\ \E kind \in FetchReplyKinds :
          /\ fetch_records(0, SampleSize, kind)
          /\ sample_records' = FetchReturn(0, SampleSize, kind)
    /\ idx' = 1
    /\ pc' = "FETCHED"
    /\ UNCHANGED <<min_len, max_len, ret, filtered_records, csv_file,
                   chart_file, sample_file, history>>

(* One turn of `for record in records`: StringIO(sample_records) raises on a
   non-string, the parser raises on a malformed entry, the loop ends when
   the text is exhausted. *)
Filter ==
    /\ pc = "FETCHED"
    /\ IF sample_records.kind # "str"
       THEN Crash("type_error") /\ UNCHANGED <<idx, filtered_records>>
       ELSE IF idx > Len(sample_records.body)
       THEN /\ pc' = "FILTERED"
            /\ outcome' = "filtered"
            /\ UNCHANGED <<idx, filtered_records>>
       ELSE IF ~sample_records.body[idx].wellFormed
       THEN Crash("parse_error") /\ UNCHANGED <<idx, filtered_records>>
       ELSE LET record == Record(sample_records.body[idx])
            IN  /\ filtered_records' =
                      IF Skips(record, min_len, max_len) THEN filtered_records
                      ELSE Append(filtered_records, record)
                /\ idx' = idx + 1
                /\ UNCHANGED <<pc, outcome>>
    /\ UNCHANGED <<retrieverVars, db, serial, fetchLog, min_len, max_len, ret,
                   sample_records, csv_file, chart_file, sample_file, history>>

(* generate_csv(filtered_records, taxid): it returns, or it raises (pandas or
   the file system) and main() has no handler. *)
WriteTable ==
    /\ pc = "FILTERED"
    /\ \E ok \in BOOLEAN :
          IF ok
          THEN /\ csv_file' = <<CsvRows(filtered_records)>>
               /\ pc' = "TABLE_WRITTEN"
               /\ outcome' = "table_written"
          ELSE Crash("table_error") /\ UNCHANGED csv_file
    /\ UNCHANGED <<retrieverVars, db, serial, fetchLog, min_len, max_len, ret,
                   sample_records, idx, filtered_records, chart_file,
                   sample_file, history>>

(* generate_chart(filtered_records, taxid) *)
WriteChart ==
    /\ pc = "TABLE_WRITTEN"
    /\ \E ok \in BOOLEAN :
          IF ok
          THEN /\ chart_file' = <<ChartPoints(filtered_records)>>
               /\ pc' = "REPORTED"
               /\ outcome' = "chart_written"
          ELSE Crash("chart_error") /\ UNCHANGED chart_file
    /\ UNCHANGED <<retrieverVars, db, serial, fetchLog, min_len, max_len, ret,
                   sample_records, idx, filtered_records, csv_file,
                   sample_file, history>>

(* with open(output_file, "w") as f: f.write(sample_records) *)
SaveSample ==
    /\ pc = "REPORTED"
    /\ \E ok \in BOOLEAN :
          IF ok
          THEN /\ sample_file' = <<sample_records>>
               /\ pc' = "SAVED"
               /\ outcome' = "sample_saved"
          ELSE Crash("save_error") /\ UNCHANGED sample_file
    /\ UNCHANGED <<retrieverVars, db, serial, fetchLog, min_len, max_len, ret,
                   sample_records, idx, filtered_records, csv_file, chart_file,
                   history>>

Init ==
    /\ webenv = <<>> /\ query_key = <<>> /\ count = <<>>
    /\ \E entries \in EntrySeqs(MaxRecs) :
          db = [t \in TaxIds |-> IF t = MainTaxid THEN entries ELSE <<>>]
    /\ serial = 0
    /\ fetchLog = <<>>
    /\ outcome = "none"
    /\ pc = "START"
    /\ min_len = <<>> /\ max_len = <<>>
    /\ ret = None
    /\ sample_records = None
    /\ idx = 0
    /\ filtered_records = <<>>
    /\ csv_file = <<>> /\ chart_file = <<>> /\ sample_file = <<>>
    /\ history = <<>>

Next == ReadBounds \/ Search \/ Fetch \/ Filter \/ WriteTable \/ WriteChart
            \/ SaveSample

Spec == Init /\ [][Next]_vars

----------------------------------------------------------------------------
(* A client object used directly: any calls, in any order *)

StartArgs == {0, 1}
MaxRecordsArgs == {SampleSize, MaxBatch, MaxBatch + 1}

ClientDb ==
    [t \in TaxIds |->
        IF t = "9606" THEN <<Entry(1, 1), Entry(2, 2)>>
        ELSE IF t = "10090" THEN <<Entry(1, 1)>>
        ELSE <<>>]

CallSearch ==
    /\ Len(history) < MaxCalls
    /\ \E taxid \in TaxIds, kind \in SearchReplyKinds :
          /\ search_taxid(taxid, kind)
          /\ history' = Append(history,
                [op |-> "search_taxid", taxid |-> taxid, start |-> 0,
                 max_records |-> 0,
                 ret |-> SearchReturn(SearchReply(kind, taxid))])
    /\ UNCHANGED mainVars

CallFetch ==
    /\ Len(history) < MaxCalls
    /\ \E start \in StartArgs, max_records \in MaxRecordsArgs,
          kind \in FetchReplyKinds :
          /\ fetch_records(start, max_records, kind)
          /\ history' = Append(history,
                [op |-> "fetch_records", taxid |-> "", start |-> start,
                 max_records |-> max_records,
                 ret |-> FetchReturn(start, max_records, kind)])
    /\ UNCHANGED mainVars

InitClient ==
    /\ webenv = <<>> /\ query_key = <<>> /\ count = <<>>
    /\ db = ClientDb
    /\ serial = 0
    /\ fetchLog = <<>>
    /\ outcome = "none"
    /\ pc = "CLIENT"
    /\ min_len = <<>> /\ max_len = <<>>
    /\ ret = None
    /\ sample_records = None
    /\ idx = 0
    /\ filtered_records = <<>>
    /\ csv_file = <<>> /\ chart_file = <<>> /\ sample_file = <<>>
    /\ history = <<>>

NextClient == CallSearch \/ CallFetch

SpecClient == InitClient /\ [][NextClient]_vars

----------------------------------------------------------------------------
(* Properties of one run of main (Spec) *)

(* The records SeqIO.parse yields from the fetched text. *)
ParsedRecords ==
    [i \in 1..Len(sample_records.body) |-> Record(sample_records.body[i])]

PositionIn(records, r) == CHOOSE i \in DOMAIN records : records[i] = r

InBound(r) ==
    /\ min_len = <<>> \/ r.len >= min_len[1]
    /\ max_len = <<>> \/ r.len <= max_len[1]

LocalErrors == {"parse_error", "table_error", "chart_error", "save_error"}

(* The filter loop has run to its end. *)
FilterFinished ==
    \/ pc \in {"FILTERED", "TABLE_WRITTEN", "REPORTED", "SAVED"}
    \/ pc = "CRASHED" /\ outcome \in {"table_error", "chart_error", "save_error"}

NoFileWritten == csv_file = <<>> /\ chart_file = <<>> /\ sample_file = <<>>

(* C1: once the filter loop has finished, a parsed record is in
   filtered_records if and only if its length is within the inclusive bounds
   that are present, every element of filtered_records is a parsed record,
   and the retained records are in their parse order. *)
C1_FilterKeepsExactlyInBound ==
    FilterFinished =>
        LET R == ParsedRecords
            F == filtered_records
        IN  /\ \A i \in DOMAIN R :
                  InBound(R[i]) <=> \E j \in DOMAIN F : F[j] = R[i]
            /\ \A j \in DOMAIN F : \E i \in DOMAIN R : F[j] = R[i]
            /\ \A j, k \in DOMAIN F :
                  j < k => PositionIn(R, F[j]) < PositionIn(R, F[k])

C1_Witness ==
    /\ pc = "FILTERED"
    /\ min_len = <<1>> /\ max_len = <<>>
    /\ Len(sample_records.body) = 3
    /\ [i \in 1..3 |-> sample_records.body[i].len] = <<0, 1, 2>>
    /\ Len(filtered_records) = 2

(* C2: the table has one row per record, in input order, and the description
   of row i is the description string of record i. *)
C2_RowsCarryOwnDescription ==
    csv_file # <<>> =>
        LET rows == csv_file[1]
        IN  /\ Len(rows) = Len(filtered_records)
            /\ \A i \in DOMAIN rows :
                  /\ rows[i].acc = filtered_records[i].acc
                  /\ rows[i].len = filtered_records[i].len
                  /\ rows[i].desc = DescriptionString(filtered_records[i].desc)

(* C3: when the search found no record or failed, the run is in NO_RESULTS,
   where nothing more happens: no fetch request was sent and no output file
   was written. *)
C3_NoResultsWritesNothing ==
    outcome \in {"lookup_error", "search_error", "no_matches"} =>
        /\ pc = "NO_RESULTS"
        /\ ~ENABLED Next
        /\ fetchLog = <<>>
        /\ NoFileWritten

C3_Witness ==
    /\ pc = "NO_RESULTS"
    /\ outcome = "no_matches"
    /\ min_len # <<>>

(* The order of the stages, read off a state: a fetch only after a search
   that returned a count > 0, the table and the chart only after the filter
   loop, the chart after the table, the sample file after both. *)
StagesInOrder ==
    /\ (pc \in {"SEARCHED", "FETCHED"} \/ FilterFinished \/ fetchLog # <<>>)
          => ret.kind = "int" /\ ret.val > 0
    /\ (pc = "FETCHED" \/ FilterFinished) => fetchLog # <<>>
    /\ (csv_file # <<>> \/ chart_file # <<>>) => FilterFinished
    /\ chart_file # <<>> => csv_file # <<>>
    /\ sample_file # <<>> => csv_file # <<>> /\ chart_file # <<>>
    /\ pc = "TABLE_WRITTEN" => csv_file # <<>>
    /\ pc = "REPORTED" => csv_file # <<>> /\ chart_file # <<>>
    /\ pc = "SAVED" <=> sample_file # <<>>

StageSteps ==
    {<<"START", "CONFIGURED">>, <<"CONFIGURED", "SEARCHED">>,
     <<"CONFIGURED", "NO_RESULTS">>, <<"SEARCHED", "FETCHED">>,
     <<"FETCHED", "FILTERED">>, <<"FILTERED", "TABLE_WRITTEN">>,
     <<"TABLE_WRITTEN", "REPORTED">>, <<"REPORTED", "SAVED">>}

CrashSteps ==
    {<<"FETCHED", "CRASHED">>, <<"FILTERED", "CRASHED">>,
     <<"TABLE_WRITTEN", "CRASHED">>, <<"REPORTED", "CRASHED">>}

(* C4 as stated: the stages are in order and a run can end only in
   NO_RESULTS or SAVED. *)
C4_EndsOnlyInNoResultsOrSaved ==
    /\ StagesInOrder
    /\ ~ENABLED Next => pc \in {"NO_RESULTS", "SAVED"}

(* C4 as amended: the stages occur only in the order CONFIGURED, SEARCHED,
   FETCHED, FILTERED, REPORTED, SAVED, and a run ends in NO_RESULTS, in
   SAVED, or with an exception that main does not catch, raised while
   parsing or while writing the table, the chart or the sample file. *)
C4_StagesInOrder ==
    /\ [](StagesInOrder)
    /\ []((~ENABLED Next) => pc \in {"NO_RESULTS", "SAVED", "CRASHED"})
    /\ [](pc = "CRASHED" => outcome \in LocalErrors)
    /\ [][pc' # pc => <<pc, pc'>> \in StageSteps \cup CrashSteps]_vars

C4_Witness ==
    /\ pc = "SAVED"
    /\ Len(filtered_records) = 2
    /\ csv_file # <<>> /\ chart_file # <<>>
    /\ sample_file = <<sample_records>>

(* C7: a chart failure leaves the table written, and a table failure does
   not keep the chart from being written. *)
C7_TableAndChartIndependent ==
    /\ outcome = "chart_error" => csv_file # <<>>
    /\ (outcome = "table_error" /\ ~ENABLED Next) => chart_file # <<>>

(* C8: a failed remote call is caught where it is made: after a failed
   lookup or search, search_taxid has returned None and the run is in
   NO_RESULTS; after a failed fetch, fetch_records has returned the empty
   text and the run goes on; and no run ends with an exception other than
   one raised by the local steps (parsing, table, chart, sample file). *)
C8_RemoteFailuresAreCaught ==
    /\ [](outcome \in {"lookup_error", "search_error"}
            => ret = None /\ pc = "NO_RESULTS")
    /\ [](outcome = "fetch_error"
            => sample_records = Text(<<>>) /\ pc = "FETCHED")
    /\ [](sample_file # <<>> => sample_file[1].kind = "str")
    /\ [][pc' = "CRASHED" => outcome' \in LocalErrors]_vars
    /\ [][(pc' = "CRASHED" /\ sample_records = Text(<<>>))
            => outcome' \in LocalErrors \ {"parse_error"}]_vars

C8_Witness ==
    /\ pc = "SAVED"
    /\ db[MainTaxid] # <<>>
    /\ Len(fetchLog) = 1
    /\ sample_file = <<Text(<<>>)>>

(* C9: the plotted points are the records passed in, each once, in
   non-decreasing order of length, records of equal length in their input
   order; and writing the chart leaves the caller's list as it was. *)
C9_ChartSortedStable ==
    /\ [](chart_file # <<>> =>
            LET P == chart_file[1]
                R == filtered_records
                Point(r) == [acc |-> r.acc, len |-> r.len]
                In(acc) == CHOOSE i \in DOMAIN R : R[i].acc = acc
            IN  /\ Len(P) = Len(R)
                /\ \A i \in DOMAIN R :
                      Cardinality({j \in DOMAIN P : P[j] = Point(R[i])}) = 1
                /\ \A j, k \in DOMAIN P : j < k => P[j].len <= P[k].len
                /\ \A j, k \in DOMAIN P :
                      (j < k /\ P[j].len = P[k].len)
                          => In(P[j].acc) < In(P[k].acc))
    /\ [][chart_file' # chart_file => filtered_records' = filtered_records]_vars

C9_Witness ==
    /\ chart_file # <<>>
    /\ Len(filtered_records) = 3
    /\ [i \in 1..3 |-> filtered_records[i].len] = <<2, 1, 1>>
    /\ [i \in 1..3 |-> chart_file[1][i].acc] = <<2, 3, 1>>

----------------------------------------------------------------------------
(* Properties of a client object (SpecClient) *)

IsSuccessfulSearch(call) ==
    call.op = "search_taxid" /\ call.ret.kind = "int" /\ call.ret.val > 0

(* Some search_taxid call before call k returned a count > 0. *)
SucceededBefore(k) ==
    \E i \in 1..(k - 1) : IsSuccessfulSearch(history[i])

(* The last such call before call k. *)
LastSuccessBefore(k) ==
    CHOOSE i \in 1..(k - 1) :
        /\ IsSuccessfulSearch(history[i])
        /\ \A j \in (i + 1)..(k - 1) : ~IsSuccessfulSearch(history[j])

(* The fetch_records calls made after a successful search, and the request
   the remote received from each. *)
SessionFetches ==
    {k \in DOMAIN history :
        history[k].op = "fetch_records" /\ SucceededBefore(k)}

RequestOf(k) == fetchLog[Cardinality({i \in SessionFetches : i <= k})]

(* C5: every fetch_records call made with an active session sends one
   request, whose retmax is max_records when that is at most 500 and 500
   otherwise. *)
C5_BatchSizeCapped ==
    /\ Len(fetchLog) = Cardinality(SessionFetches)
    /\ \A k \in SessionFetches :
          /\ RequestOf(k).retmax <= MaxBatch
          /\ RequestOf(k).retmax =
                IF history[k].max_records <= MaxBatch
                THEN history[k].max_records ELSE MaxBatch
          /\ RequestOf(k).retstart = history[k].start

C5_Witness ==
    \E k \in SessionFetches :
        /\ history[k].max_records = MaxBatch + 1
        /\ RequestOf(k).retmax = MaxBatch

(* C6: a fetch_records call made before any search_taxid call returned a
   count > 0 returns the empty list, not text, and sends no request: the
   remote has received requests only from the calls made with a session. *)
C6_FetchWithoutSearchRefused ==
    /\ \A k \in DOMAIN history :
          (history[k].op = "fetch_records" /\ ~SucceededBefore(k))
              => history[k].ret = EmptyList /\ history[k].ret.kind # "str"
    /\ Len(fetchLog) <= Cardinality(SessionFetches)

C6_Witness ==
    /\ Len(history) = 2
    /\ history[1].op = "search_taxid" /\ history[1].ret = None
    /\ history[2].op = "fetch_records" /\ history[2].ret = EmptyList
    /\ fetchLog = <<>>

(* C10: the stored session changes only in a search_taxid call that returns
   a count > 0, which stores the tokens of that search; a search that fails
   or finds nothing returns None and leaves the session as it was, so a
   fetch after it is sent with the tokens of the last successful search and
   returns text. *)
C10_SessionSurvivesFailedSearch ==
    /\ [][retrieverVars' # retrieverVars =>
            /\ Len(history') = Len(history) + 1
            /\ IsSuccessfulSearch(history'[Len(history')])
            /\ webenv'[1].taxid = history'[Len(history')].taxid
            /\ webenv'[1].serial = serial'
            /\ query_key' = <<serial'>>
            /\ count' = <<history'[Len(history')].ret.val>>]_vars
    /\ [](\A k \in DOMAIN history :
            (history[k].op = "search_taxid" /\ ~IsSuccessfulSearch(history[k]))
                => history[k].ret = None)
    /\ [](\A k \in SessionFetches :
            /\ history[k].ret.kind = "str"
            /\ RequestOf(k).webenv.taxid = history[LastSuccessBefore(k)].taxid
            /\ RequestOf(k).webenv.serial = RequestOf(k).query_key)
    /\ [](HasSession <=> SucceededBefore(Len(history) + 1))

C10_Witness ==
    /\ Len(history) = 3
    /\ IsSuccessfulSearch(history[1]) /\ history[1].taxid = "9606"
    /\ history[2].op = "search_taxid" /\ history[2].taxid = "10090"
    /\ history[2].ret = None
    /\ history[3].op = "fetch_records" /\ history[3].ret.body # <<>>
    /\ fetchLog[1].webenv.taxid = "9606"

====
